---- MODULE Spec2Model ----
(***************************************************************************)
(* prettybench: reads `go test -bench` output line by line, collects the   *)
(* benchmark lines of one run into a group and, at the run's "ok" line,    *)
(* prints the group as a column-aligned table.                             *)
(*                                                                         *)
(* Text is modelled byte by byte: a Go string is a sequence of one-byte    *)
(* strings.  The two bytes of the micro sign (0xCE 0xBC) are written       *)
(* "<CE>" and "<BC>".                                                      *)
(***************************************************************************)
EXTENDS Integers, Sequences, FiniteSets, TLC

\* Number of input lines a run of the model reads.
MaxLines == 3

----------------------------------------------------------------------------
(* Strings *)

RECURSIVE Concat(_)
Concat(ss) == IF ss = <<>> THEN <<>> ELSE Head(ss) \o Concat(Tail(ss))

\* strings.Repeat(c, n) for a one-byte string c
Repeat(c, n) == [i \in 1..n |-> c]

Max(a, b) == IF a > b THEN a ELSE b

HasPrefix(s, p) == Len(s) >= Len(p) /\ SubSeq(s, 1, Len(p)) = p

HasSuffix(s, p) == Len(s) >= Len(p) /\ SubSeq(s, Len(s) - Len(p) + 1, Len(s)) = p

DigitChars == <<"0", "1", "2", "3", "4", "5", "6", "7", "8", "9">>

IsDigit(c) == \E d \in 1..10 : DigitChars[d] = c

DigitVal(c) == (CHOOSE d \in 1..10 : DigitChars[d] = c) - 1

AllDigits(s) == \A i \in 1..Len(s) : IsDigit(s[i])

\* the white space of unicode.IsSpace and of the regexp class \s that a
\* one-byte character can be
IsSpace(c) == c \in {" ", "\t", "\n", "\r", "\f"}

\* utf8.RuneCountInString: every byte but a continuation byte starts a rune
RuneCount(s) == Cardinality({i \in 1..Len(s) : s[i] # "<BC>"})

\* the k-th smallest element of a set of positions
Nth(S, k) == CHOOSE i \in S : Cardinality({j \in S : j < i}) = k - 1

\* strings.Fields: the maximal runs of non-space characters
Fields(s) ==
    LET starts == {i \in 1..Len(s) : ~IsSpace(s[i]) /\ (i = 1 \/ IsSpace(s[i - 1]))}
        ends   == {i \in 1..Len(s) : ~IsSpace(s[i]) /\ (i = Len(s) \/ IsSpace(s[i + 1]))}
    IN  [k \in 1..Cardinality(starts) |-> SubSeq(s, Nth(starts, k), Nth(ends, k))]

\* strings.Split(s, sep) for a one-byte separator: empty fields are kept
Split(s, sep) ==
    LET seps  == {i \in 1..Len(s) : s[i] = sep}
        n     == Cardinality(seps)
        from(k) == IF k = 1 THEN 1 ELSE Nth(seps, k - 1) + 1
        to(k)   == IF k = n + 1 THEN Len(s) ELSE Nth(seps, k) - 1
    IN  [k \in 1..(n + 1) |-> SubSeq(s, from(k), to(k))]

----------------------------------------------------------------------------
(* Numbers *)

RECURSIVE StripLeadingZeros(_)
StripLeadingZeros(ds) ==
    IF ds # <<>> /\ Head(ds) = "0" THEN StripLeadingZeros(Tail(ds)) ELSE ds

RECURSIVE StripTrailingZeros(_)
StripTrailingZeros(ds) ==
    IF ds # <<>> /\ ds[Len(ds)] = "0"
    THEN StripTrailingZeros(SubSeq(ds, 1, Len(ds) - 1))
    ELSE ds

RECURSIVE DigitsValue(_)
DigitsValue(ds) ==
    IF ds = <<>> THEN 0
    ELSE 10 * DigitsValue(SubSeq(ds, 1, Len(ds) - 1)) + DigitVal(ds[Len(ds)])

RECURSIVE NatDigits(_)
NatDigits(n) ==
    IF n < 10 THEN <<DigitChars[n + 1]>>
    ELSE Append(NatDigits(n \div 10), DigitChars[(n % 10) + 1])

\* strconv.FormatInt(n, 10), and the %d verb
FormatInt(n) == IF n < 0 THEN <<"-">> \o NatDigits(-n) ELSE NatDigits(n)

\* strconv.Atoi: an optional sign and decimal digits.  The model's integers
\* are 32 bits wide, so inputs stay below ten digits.
Atoi(s) ==
    LET signed == s # <<>> /\ Head(s) \in {"+", "-"}
        ds     == IF signed THEN Tail(s) ELSE s
    IN  IF ds = <<>> \/ ~AllDigits(ds)
        THEN [err |-> TRUE, val |-> 0]
        ELSE [err |-> FALSE,
              val |-> IF signed /\ Head(s) = "-" THEN -DigitsValue(ds) ELSE DigitsValue(ds)]

\* strconv.ParseUint(s, 10, 64): decimal digits only, no sign
ParseUint(s) ==
    IF s = <<>> \/ ~AllDigits(s)
    THEN [err |-> TRUE, val |-> 0]
    ELSE [err |-> FALSE, val |-> DigitsValue(s)]

\* A float64 is kept as the decimal number it denotes: ip the digits before
\* the point (no leading zeros), fp the digits after it (no trailing zeros).
\* The inputs have few significant digits, so the decimal is the float.
Float(ip, fp) == [ip |-> StripLeadingZeros(ip), fp |-> StripTrailingZeros(fp)]

FloatZero == Float(<<>>, <<>>)

\* strconv.ParseFloat(s, 64) on the quantity tokens of benchmark output:
\* unsigned decimals, "digits" or "digits.digits"; any other token of the
\* model's inputs is not a number.
ParseFloat(s) ==
    LET parts == Split(s, ".")
    IN  IF Len(parts) <= 2 /\ \A k \in 1..Len(parts) : AllDigits(parts[k])
           /\ Concat(parts) # <<>>
        THEN [err |-> FALSE,
              val |-> Float(parts[1], IF Len(parts) = 2 THEN parts[2] ELSE <<>>)]
        ELSE [err |-> TRUE, val |-> FloatZero]

RECURSIVE LexLess(_, _)
LexLess(a, b) ==
    /\ a # <<>>
    /\ \/ DigitVal(Head(a)) < DigitVal(Head(b))
       \/ Head(a) = Head(b) /\ LexLess(Tail(a), Tail(b))

\* a < b on float64
FloatLess(a, b) ==
    IF Len(a.ip) # Len(b.ip) THEN Len(a.ip) < Len(b.ip)
    ELSE LET n == Max(Len(a.fp), Len(b.fp))
         IN  LexLess(a.ip \o a.fp \o Repeat("0", n - Len(a.fp)),
                     b.ip \o b.fp \o Repeat("0", n - Len(b.fp)))

\* x / 10^k
FloatDivPow10(x, k) ==
    LET ds == Repeat("0", k) \o x.ip
    IN  Float(SubSeq(ds, 1, Len(ds) - k), SubSeq(ds, Len(ds) - k + 1, Len(ds)) \o x.fp)

RECURSIVE IncrDigits(_)
IncrDigits(ds) ==
    IF ds = <<>> THEN <<"1">>
    ELSE IF ds[Len(ds)] = "9"
         THEN Append(IncrDigits(SubSeq(ds, 1, Len(ds) - 1)), "0")
         ELSE Append(SubSeq(ds, 1, Len(ds) - 1), DigitChars[DigitVal(ds[Len(ds)]) + 2])

\* fmt's %.2f: the value rounded to two decimals.  A value exactly half way
\* is rounded by its binary expansion; the model rounds it to even, and its
\* inputs hold no such value.
FormatFloat2(x) ==
    LET fp2   == SubSeq(x.fp \o <<"0", "0">>, 1, 2)
        rest  == SubSeq(x.fp, 3, Len(x.fp))
        up    == /\ rest # <<>>
                 /\ \/ DigitVal(rest[1]) > 5
                    \/ DigitVal(rest[1]) = 5 /\ Len(rest) > 1
                    \/ DigitVal(rest[1]) = 5 /\ Len(rest) = 1 /\ DigitVal(fp2[2]) % 2 = 1
        all   == IF up THEN IncrDigits(x.ip \o fp2) ELSE x.ip \o fp2
        int   == SubSeq(all, 1, Len(all) - 2)
    IN  (IF int = <<>> THEN <<"0">> ELSE int) \o <<".">> \o SubSeq(all, Len(all) - 1, Len(all))

----------------------------------------------------------------------------
(* package bench: one parsed benchmark line *)

\* which measurements a Bench contains (1 << iota); prettybench.go names
\* them bench.NsPerOp, bench.MBPerS, bench.AllocedBytesPerOp and
\* bench.AllocsPerOp, and the fields likewise
NsOp == 1
MbS == 2
BOp == 4
AllocsOp == 8

Flags == {NsOp, MbS, BOp, AllocsOp}

\* (m & f) != 0 for a one-bit f
HasFlag(m, f) == (m \div f) % 2 = 1

\* m | f for a one-bit f
SetFlag(m, f) == IF HasFlag(m, f) THEN m ELSE m + f

RECURSIVE OrOver(_, _, _)
OrOver(fs, a, b) ==
    IF fs = {} THEN 0
    ELSE LET f == CHOOSE x \in fs : TRUE
         IN  (IF HasFlag(a, f) \/ HasFlag(b, f) THEN f ELSE 0) + OrOver(fs \ {f}, a, b)

\* a | b
BitOr(a, b) == OrOver(Flags, a, b)

\* &Bench{Name: name, N: n}: every other field holds its zero value
NewBench(name, n) ==
    [Name |-> name, N |-> n, NsOp |-> FloatZero, MbS |-> FloatZero,
     BOp |-> 0, AllocsOp |-> 0, Measured |-> 0]

\* parseMeasurement without the err == nil tests: the flag is set and the
\* value stored whatever the quantity
parseMeasurementUnchecked(b, quant, unit) ==
    CASE unit = <<"n", "s", "/", "o", "p">> ->
            [b EXCEPT !.NsOp = ParseFloat(quant).val, !.Measured = SetFlag(@, NsOp)]
      [] unit = <<"M", "B", "/", "s">> ->
            [b EXCEPT !.MbS = ParseFloat(quant).val, !.Measured = SetFlag(@, MbS)]
      [] unit = <<"B", "/", "o", "p">> ->
            [b EXCEPT !.BOp = ParseUint(quant).val, !.Measured = SetFlag(@, BOp)]
      [] unit = <<"a", "l", "l", "o", "c", "s", "/", "o", "p">> ->
            [b EXCEPT !.AllocsOp = ParseUint(quant).val, !.Measured = SetFlag(@, AllocsOp)]
      [] OTHER -> b

parseMeasurement(b, quant, unit) ==
    CASE unit = <<"n", "s", "/", "o", "p">> ->
            LET f == ParseFloat(quant)
            IN  IF f.err THEN b
                ELSE [b EXCEPT !.NsOp = f.val, !.Measured = SetFlag(@, NsOp)]
      [] unit = <<"M", "B", "/", "s">> ->
            LET f == ParseFloat(quant)
            IN  IF f.err THEN b
                ELSE [b EXCEPT !.MbS = f.val, !.Measured = SetFlag(@, MbS)]
      [] unit = <<"B", "/", "o", "p">> ->
            LET i == ParseUint(quant)
            IN  IF i.err THEN b
                ELSE [b EXCEPT !.BOp = i.val, !.Measured = SetFlag(@, BOp)]
      [] unit = <<"a", "l", "l", "o", "c", "s", "/", "o", "p">> ->
            LET i == ParseUint(quant)
            IN  IF i.err THEN b
                ELSE [b EXCEPT !.AllocsOp = i.val, !.Measured = SetFlag(@, AllocsOp)]
      [] OTHER -> b

\* the loop "for i := 1; i < len(fields)/2; i++" over the pairs
\* fields[i*2], fields[i*2+1] (0-based)
RECURSIVE parsePairs(_, _, _)
parsePairs(b, fields, i) ==
    IF i < Len(fields) \div 2
    THEN parsePairs(parseMeasurement(b, fields[i * 2 + 1], fields[i * 2 + 2]), fields, i + 1)
    ELSE b

NoBench == NewBench(<<>>, 0)

UnitLabels == {<<"n", "s", "/", "o", "p">>, <<"M", "B", "/", "s">>, <<"B", "/", "o", "p">>, <<"a", "l", "l", "o", "c", "s", "/", "o", "p">>}

\* bench.ParseLine with an error for a unit label it does not know
benchParseLineStrict(line) ==
    LET fields == Fields(line)
    IN  IF Len(fields) < 2
        THEN [err |-> "two fields required", b |-> NoBench]
        ELSE IF ~HasPrefix(fields[1], <<"B", "e", "n", "c", "h", "m", "a", "r", "k">>)
        THEN [err |-> "first field does not start with Benchmark", b |-> NoBench]
        ELSE IF Atoi(fields[2]).err
        THEN [err |-> "strconv.Atoi", b |-> NoBench]
        ELSE IF \E i \in 1..(Len(fields) \div 2 - 1) : fields[i * 2 + 2] \notin UnitLabels
        THEN [err |-> "unknown unit", b |-> NoBench]
        ELSE [err |-> "nil",
              b |-> parsePairs(NewBench(fields[1], Atoi(fields[2]).val), fields, 1)]

\* bench.ParseLine
benchParseLine(line) ==
    LET fields == Fields(line)
    IN  IF Len(fields) < 2
        THEN [err |-> "two fields required", b |-> NoBench]
        ELSE IF ~HasPrefix(fields[1], <<"B", "e", "n", "c", "h", "m", "a", "r", "k">>)
        THEN [err |-> "first field does not start with Benchmark", b |-> NoBench]
        ELSE IF Atoi(fields[2]).err
        THEN [err |-> "strconv.Atoi", b |-> NoBench]
        ELSE [err |-> "nil",
              b |-> parsePairs(NewBench(fields[1], Atoi(fields[2]).val), fields, 1)]

----------------------------------------------------------------------------
(* package main *)

\* regexp `^Benchmark.*\t.*\d+`
benchLineMatcher(line) ==
    /\ HasPrefix(line, <<"B", "e", "n", "c", "h", "m", "a", "r", "k">>)
    /\ \E p \in 10..Len(line) :
          /\ line[p] = "\t"
          /\ \E q \in (p + 1)..Len(line) : IsDigit(line[q])

\* regexp `^ok\s`
okLineMatcher(line) ==
    /\ HasPrefix(line, <<"o", "k">>)
    /\ Len(line) >= 3
    /\ IsSpace(line[3])

\* ParseLine without the count of the tab-separated fields
ParseLineNoFieldCount(line) ==
    IF ~benchLineMatcher(line)
    THEN [err |-> "errNotBenchLine", b |-> NoBench]
    ELSE benchParseLine(line)

ParseLine(line) ==
    IF ~benchLineMatcher(line)
    THEN [err |-> "errNotBenchLine", b |-> NoBench]
    ELSE IF Len(Split(line, "\t")) < 3
    THEN [err |-> "errNotBenchLine", b |-> NoBench]
    ELSE benchParseLine(line)

\* &BenchOutputGroup{}
EmptyGroup == [Lines |-> <<>>, Measured |-> 0]

\* AddLine with g.Measured = line.Measured in place of |=
AddLineOverwrite(g, line) ==
    [Lines |-> Append(g.Lines, line), Measured |-> line.Measured]

AddLine(g, line) ==
    [Lines |-> Append(g.Lines, line), Measured |-> BitOr(g.Measured, line.Measured)]

\* the loop of TimeFormatFunc that finds the smallest time
RECURSIVE smallestFrom(_, _, _)
smallestFrom(lines, i, smallest) ==
    IF i > Len(lines) THEN smallest
    ELSE smallestFrom(lines, i + 1,
                      IF FloatLess(lines[i].NsOp, smallest) THEN lines[i].NsOp ELSE smallest)

\* TimeFormatFunc without its loop: the first line's time
smallestOfFirst(g) == g.Lines[1].NsOp

\* TimeFormatFunc looking only at the lines whose ns/op was measured
smallestOfMeasured(g) ==
    LET ms == SelectSeq(g.Lines, LAMBDA l : HasFlag(l.Measured, NsOp))
    IN  IF ms = <<>> THEN g.Lines[1].NsOp ELSE smallestFrom(ms, 2, ms[1].NsOp)

smallestOf(g) == smallestFrom(g.Lines, 2, g.Lines[1].NsOp)

\* float64(10000*time.Nanosecond), float64(time.Millisecond), float64(10*time.Second)
TenThousandNs == Float(<<"1", "0", "0", "0", "0">>, <<>>)
Millisecond == Float(<<"1", "0", "0", "0", "0", "0", "0">>, <<>>)
TenSeconds == Float(<<"1", "0", "0", "0", "0", "0", "0", "0", "0", "0", "0">>, <<>>)

\* TimeFormatFunc returns a closure; the model returns what the closure
\* holds: the power of ten it divides by and the suffix it prints.
TimeFormatFunc(g) ==
    LET smallest == smallestOf(g)
    IN  CASE FloatLess(smallest, TenThousandNs) -> [div |-> 0, suffix |-> <<" ", "n", "s", "/", "o", "p">>]
          [] FloatLess(smallest, Millisecond)   -> [div |-> 3, suffix |-> <<" ", "<CE>", "<BC>", "s", "/", "o", "p">>]
          [] FloatLess(smallest, TenSeconds)    -> [div |-> 6, suffix |-> <<" ", "m", "s", "/", "o", "p">>]
          [] OTHER                              -> [div |-> 9, suffix |-> <<" ", "s", "/", "o", "p">>]

\* a call of the closure
timeFormatFunc(f, ns) == FormatFloat2(FloatDivPow10(ns, f.div)) \o f.suffix

FormatAllocsPerOp(l) ==
    IF ~HasFlag(l.Measured, AllocsOp) THEN <<>>
    ELSE FormatInt(l.AllocsOp) \o <<" ", "a", "l", "l", "o", "c", "s", "/", "o", "p">>

FormatBytesAllocPerOp(l) ==
    IF ~HasFlag(l.Measured, BOp) THEN <<>>
    ELSE FormatInt(l.BOp) \o <<" ", "B", "/", "o", "p">>

FormatIterations(iter) == FormatInt(iter)

FormatMegaBytesPerSecond(l) ==
    IF ~HasFlag(l.Measured, MbS) THEN <<>>
    ELSE FormatFloat2(l.MbS) \o <<" ", "M", "B", "/", "s">>

\* the column names String chooses
columnNamesOf(g) ==
    <<<<"b", "e", "n", "c", "h", "m", "a", "r", "k">>, <<"i", "t", "e", "r">>, <<"t", "i", "m", "e", "/", "i", "t", "e", "r">>>>
    \o (IF HasFlag(g.Measured, MbS) THEN <<<<"t", "h", "r", "o", "u", "g", "h", "p", "u", "t">>>> ELSE <<>>)
    \o (IF HasFlag(g.Measured, BOp) THEN <<<<"b", "y", "t", "e", "s", " ", "a", "l", "l", "o", "c">>>> ELSE <<>>)
    \o (IF HasFlag(g.Measured, AllocsOp) THEN <<<<"a", "l", "l", "o", "c", "s">>>> ELSE <<>>)

\* underlines := make([]string, len(columnNames)) holds len(columnNames)
\* empty strings already; the loop appends one run of dashes per name to them
underlinesOf(columnNames) ==
    [i \in 1..Len(columnNames) |-> <<>>]
    \o [i \in 1..Len(columnNames) |-> Repeat("-", Len(columnNames[i]))]

\* one data row of tabulate
rowOf(g, f, line) ==
    <<line.Name, FormatIterations(line.N), timeFormatFunc(f, line.NsOp)>>
    \o (IF HasFlag(g.Measured, MbS) THEN <<FormatMegaBytesPerSecond(line)>> ELSE <<>>)
    \o (IF HasFlag(g.Measured, BOp) THEN <<FormatBytesAllocPerOp(line)>> ELSE <<>>)
    \o (IF HasFlag(g.Measured, AllocsOp) THEN <<FormatAllocsPerOp(line)>> ELSE <<>>)

\* tabulate returns the Table; MaxLengths is filled in by String
tabulate(g, columnNames) ==
    LET f == TimeFormatFunc(g)
    IN  [MaxLengths |-> <<>>,
         Cells |-> <<columnNames, underlinesOf(columnNames)>>
                   \o [k \in 1..Len(g.Lines) |-> rowOf(g, f, g.Lines[k])]]

RECURSIVE maxLengthFrom(_, _, _, _)
maxLengthFrom(tableCells, i, r, maxLength) ==
    IF r > Len(tableCells) THEN maxLength
    ELSE maxLengthFrom(tableCells, i, r + 1, Max(maxLength, Len(tableCells[r][i])))

findMaxLengths(colNames, tableCells) ==
    [i \in 1..Len(colNames) |-> maxLengthFrom(tableCells, i, 1, 0)]

\* getFormat(rowNum, rowLen) with rowNum counted from 0: whether the cell is
\* left-justified, and what follows it
getFormat(rowNum, rowLen) ==
    CASE rowNum = 0          -> [left |-> TRUE,  sep |-> <<" ", " ", " ">>]
      [] rowNum = rowLen - 1 -> [left |-> FALSE, sep |-> <<>>]
      [] OTHER               -> [left |-> FALSE, sep |-> <<" ", " ", " ">>]

\* fmt.Sprintf of "%-<width>s<sep>" or "%<width>s<sep>": fmt pads to the
\* width counted in runes and never cuts the cell
Sprintf(format, width, cell) ==
    LET pad == Repeat(" ", Max(0, width - RuneCount(cell)))
    IN  (IF format.left THEN cell \o pad ELSE pad \o cell) \o format.sep

RECURSIVE formatCellsFrom(_, _, _)
formatCellsFrom(row, i, tableMaxLengths) ==
    IF i > Len(row) THEN <<>>
    ELSE Sprintf(getFormat(i - 1, Len(row)), tableMaxLengths[i], row[i])
         \o formatCellsFrom(row, i + 1, tableMaxLengths)

\* The result of a call that may panic: the string it returns, or the
\* run-time error "index out of range [index] with length length".
Returned(s) == [panic |-> FALSE, text |-> s, index |-> 0, length |-> 0]

Panicked(i, n) == [panic |-> TRUE, text |-> <<>>, index |-> i, length |-> n]

RECURSIVE formatRowsFrom(_, _, _, _)
formatRowsFrom(tableCells, r, tableMaxLengths, buf) ==
    IF r > Len(tableCells) THEN Returned(buf)
    ELSE IF Len(tableCells[r]) > Len(tableMaxLengths)
         \* tableMaxLengths[i] with i = len(tableMaxLengths)
         THEN Panicked(Len(tableMaxLengths), Len(tableMaxLengths))
         ELSE formatRowsFrom(tableCells, r + 1, tableMaxLengths,
                             buf \o formatCellsFrom(tableCells[r], 1, tableMaxLengths)
                                 \o <<"\n">>)

formatTableCells(tableCells, tableMaxLengths) ==
    formatRowsFrom(tableCells, 1, tableMaxLengths, <<>>)

\* (g *BenchOutputGroup) String
String(g) ==
    IF Len(g.Lines) = 0 THEN Returned(<<>>)
    ELSE LET columnNames == columnNamesOf(g)
             table       == tabulate(g, columnNames)
             MaxLengths  == findMaxLengths(columnNames, table.Cells)
         IN  formatTableCells(table.Cells, MaxLengths)

\* fmt.Print(currentBenchmark): fmt calls String and recovers a panic of it,
\* printing "%!v(PANIC=String method: <error>)" in place of the string
fmtPrint(g) ==
    LET s == String(g)
    IN  IF ~s.panic THEN s.text
        ELSE <<"%", "!", "v", "(", "P", "A", "N", "I", "C", "=", "S", "t", "r", "i", "n", "g", " ", "m", "e", "t", "h", "o", "d", ":", " ", "r", "u", "n", "t", "i", "m", "e", " ", "e", "r", "r", "o", "r", ":", " ", "i", "n", "d", "e", "x", " ", "o", "u", "t", " ", "o", "f", " ", "r", "a", "n", "g", "e", " ", "[">>
             \o FormatInt(s.index) \o <<"]", " ", "w", "i", "t", "h", " ", "l", "e", "n", "g", "t", "h", " ">> \o FormatInt(s.length) \o <<")">>

----------------------------------------------------------------------------
(* The input lines of the model *)

\* benchmark lines that parse
LnNs == <<"B", "e", "n", "c", "h", "m", "a", "r", "k", "A", "\t", "1", "0", "\t", "5", " ", "n", "s", "/", "o", "p">>
LnUs == <<"B", "e", "n", "c", "h", "m", "a", "r", "k", "B", "B", "\t", "2", "0", "0", "\t", "1", "2", "3", "4", "6", " ", "n", "s", "/", "o", "p", "\t", "8", ".", "5", " ", "M", "B", "/", "s">>
LnMs == <<"B", "e", "n", "c", "h", "m", "a", "r", "k", "C", "\t", "3", "\t", "2", "0", "0", "0", "0", "0", "0", " ", "n", "s", "/", "o", "p", "\t", "1", "6", " ", "B", "/", "o", "p", "\t", "1", " ", "a", "l", "l", "o", "c", "s", "/", "o", "p">>
\* a unit label that is none of the four
LnUnknownUnit == <<"B", "e", "n", "c", "h", "m", "a", "r", "k", "E", "\t", "1", "0", "\t", "5", " ", "w", "i", "d", "g", "e", "t", "s", "/", "o", "p">>
\* a quantity that is no number, before a well-formed field
LnBadQuantity == <<"B", "e", "n", "c", "h", "m", "a", "r", "k", "F", "\t", "1", "0", "\t", "a", "b", "c", " ", "n", "s", "/", "o", "p", "\t", "7", " ", "B", "/", "o", "p">>
\* a metric field of three tokens, before a well-formed field
LnThreeTokens == <<"B", "e", "n", "c", "h", "m", "a", "r", "k", "I", "\t", "1", "0", "\t", "5", " ", "n", "s", "/", "o", "p", " ", "x", "\t", "7", " ", "B", "/", "o", "p">>
\* name and iteration count only: two tab-separated fields
LnTwoFields == <<"B", "e", "n", "c", "h", "m", "a", "r", "k", "G", "\t", "7">>
\* an iteration count that is no integer (and an unknown unit label)
LnBadIter == <<"B", "e", "n", "c", "h", "m", "a", "r", "k", "H", "\t", "x", "\t", "5", " ", "w", "i", "d", "g", "e", "t", "s", "/", "o", "p">>
\* the summary line that ends a run, and an unrelated line
LnOk == <<"o", "k", " ", "\t", "p", "k", "g", "\t", "0", ".", "1", "s">>
LnText == <<"P", "A", "S", "S">>

Catalogue ==
    {LnNs, LnUs, LnMs, LnUnknownUnit, LnBadQuantity, LnThreeTokens,
     LnTwoFields, LnBadIter, LnOk, LnText}

\* benchmark lines whose times lie on both sides of each unit threshold
LnBelowTenThousand == <<"B", "e", "n", "c", "h", "m", "a", "r", "k", "A", "\t", "1", "\t", "9", "9", "9", "9", ".", "9", "9", "6", " ", "n", "s", "/", "o", "p">>
LnTenThousand == <<"B", "e", "n", "c", "h", "m", "a", "r", "k", "B", "\t", "1", "\t", "1", "0", "0", "0", "0", " ", "n", "s", "/", "o", "p">>
LnBelowMillisecond == <<"B", "e", "n", "c", "h", "m", "a", "r", "k", "C", "\t", "1", "\t", "9", "9", "9", "9", "9", "9", " ", "n", "s", "/", "o", "p">>
LnMillisecond == <<"B", "e", "n", "c", "h", "m", "a", "r", "k", "D", "\t", "1", "\t", "1", "0", "0", "0", "0", "0", "0", " ", "n", "s", "/", "o", "p">>
LnBelowTenSeconds == <<"B", "e", "n", "c", "h", "m", "a", "r", "k", "E", "\t", "1", "\t", "9", "9", "9", "9", "9", "9", "9", "9", "9", "9", " ", "n", "s", "/", "o", "p">>
LnTenSeconds == <<"B", "e", "n", "c", "h", "m", "a", "r", "k", "F", "\t", "1", "\t", "1", "0", "0", "0", "0", "0", "0", "0", "0", "0", "0", " ", "n", "s", "/", "o", "p">>

UnitCatalogue ==
    {LnBelowTenThousand, LnTenThousand, LnBelowMillisecond, LnMillisecond,
     LnBelowTenSeconds, LnTenSeconds, LnUnknownUnit, LnBadIter, LnOk}

----------------------------------------------------------------------------
(* main *)

VARIABLES
    noPassthrough,     \* the -no-passthrough flag
    currentBenchmark,  \* the group being collected
    text,              \* scanner.Text() of the last line scanned
    nread,             \* how many lines have been scanned
    stdout,            \* the bytes written to standard output
    stderr,            \* the lines written to standard error
    scanErr,           \* scanner.Err() once scanner.Scan() has returned false
    pc,                \* "scan": in the loop; "done": main returned;
                       \* "exit1": os.Exit(1)
    printed,           \* history: each fmt.Print(currentBenchmark), the
                       \* group printed and the bytes it wrote
    accepted,          \* history: the parsed lines given to AddLine
    input,             \* history: the lines scanned so far
    writes,            \* history: each write to standard output, its kind
                       \* ("table", "echo", "unrecognized", "fault") and bytes
    twin               \* the same main reading the same lines with the
                       \* other value of the -no-passthrough flag: its
                       \* currentBenchmark, stdout and writes

vars == <<noPassthrough, currentBenchmark, text, nread, stdout, stderr, scanErr, pc,
          printed, accepted, input, writes, twin>>

\* fmt.Println(s)
Println(s) == s \o <<"\n">>

Notice == "prettybench unrecognized line:"

\* bufio.ErrTooLong, the error a Scanner reports for an over-long line
ErrTooLong == <<"b", "u", "f", "i", "o", ".", "S", "c", "a", "n", "n", "e", "r", ":", " ", "t", "o", "k", "e", "n", " ", "t", "o", "o", " ", "l", "o", "n", "g">>

Init ==
    /\ noPassthrough \in BOOLEAN
    /\ currentBenchmark = EmptyGroup
    /\ text = <<>>
    /\ nread = 0
    /\ stdout = <<>>
    /\ stderr = <<>>
    /\ scanErr = "nil"
    /\ pc = "scan"
    /\ printed = <<>>
    /\ accepted = <<>>
    /\ input = <<>>
    /\ writes = <<>>
    /\ twin = [currentBenchmark |-> EmptyGroup, stdout |-> <<>>, writes |-> <<>>]

\* the flag of the twin run
twinNoPassthrough == ~noPassthrough

\* one write to standard output; fmt.Print of "" writes nothing
Write(kind, bytes) == IF bytes = <<>> THEN <<>> ELSE <<[kind |-> kind, bytes |-> bytes]>>

\* case errNotBenchLine
ScanNotBenchLine(line) ==
    /\ pc = "scan"
    /\ nread < MaxLines
    /\ ParseLine(line).err = "errNotBenchLine"
    /\ text' = line
    /\ nread' = nread + 1
    /\ LET flush == okLineMatcher(line)
           out   == IF flush THEN fmtPrint(currentBenchmark) ELSE <<>>
       IN  /\ stdout' = stdout \o out \o (IF ~noPassthrough THEN Println(line) ELSE <<>>)
           /\ currentBenchmark' = IF flush THEN EmptyGroup ELSE currentBenchmark
           /\ printed' = IF flush
                         THEN Append(printed, [g |-> currentBenchmark, out |-> out])
                         ELSE printed
           /\ writes' = writes \o Write("table", out)
                            \o (IF ~noPassthrough THEN Write("echo", Println(line)) ELSE <<>>)
    /\ LET flush == okLineMatcher(line)
           out   == IF flush THEN fmtPrint(twin.currentBenchmark) ELSE <<>>
           echo  == IF ~twinNoPassthrough THEN Println(line) ELSE <<>>
       IN  twin' = [currentBenchmark |-> IF flush THEN EmptyGroup ELSE twin.currentBenchmark,
                    stdout |-> twin.stdout \o out \o echo,
                    writes |-> twin.writes \o Write("table", out) \o Write("echo", echo)]
    /\ input' = Append(input, line)
    /\ UNCHANGED <<noPassthrough, stderr, scanErr, pc, accepted>>

\* case nil
ScanBenchLine(line) ==
    /\ pc = "scan"
    /\ nread < MaxLines
    /\ ParseLine(line).err = "nil"
    /\ text' = line
    /\ nread' = nread + 1
    /\ currentBenchmark' = AddLine(currentBenchmark, ParseLine(line).b)
    /\ accepted' = Append(accepted, ParseLine(line).b)
    /\ twin' = [twin EXCEPT !.currentBenchmark = AddLine(twin.currentBenchmark, ParseLine(line).b)]
    /\ input' = Append(input, line)
    /\ UNCHANGED <<noPassthrough, stdout, stderr, scanErr, pc, printed, writes>>

\* default, with the echo under the -no-passthrough flag as well
ScanUnrecognizedSuppressed(line) ==
    /\ pc = "scan"
    /\ nread < MaxLines
    /\ ParseLine(line).err \notin {"errNotBenchLine", "nil"}
    /\ text' = line
    /\ nread' = nread + 1
    /\ stderr' = Append(stderr, Notice)
    /\ stdout' = stdout \o (IF ~noPassthrough THEN Println(line) ELSE <<>>)
    /\ writes' = writes \o (IF ~noPassthrough THEN Write("unrecognized", Println(line)) ELSE <<>>)
    /\ twin' = [twin EXCEPT !.stdout = @ \o (IF ~twinNoPassthrough THEN Println(line) ELSE <<>>),
                            !.writes = @ \o (IF ~twinNoPassthrough
                                             THEN Write("unrecognized", Println(line))
                                             ELSE <<>>)]
    /\ input' = Append(input, line)
    /\ UNCHANGED <<noPassthrough, currentBenchmark, scanErr, pc, printed, accepted>>

\* default
ScanUnrecognized(line) ==
    /\ pc = "scan"
    /\ nread < MaxLines
    /\ ParseLine(line).err \notin {"errNotBenchLine", "nil"}
    /\ text' = line
    /\ nread' = nread + 1
    /\ stderr' = Append(stderr, Notice)
    /\ stdout' = stdout \o Println(line)
    /\ writes' = writes \o Write("unrecognized", Println(line))
    /\ twin' = [twin EXCEPT !.stdout = @ \o Println(line),
                            !.writes = @ \o Write("unrecognized", Println(line))]
    /\ input' = Append(input, line)
    /\ UNCHANGED <<noPassthrough, currentBenchmark, scanErr, pc, printed, accepted>>

\* the end of the input with a final fmt.Print(currentBenchmark)
EndOfInputFlush ==
    /\ pc = "scan"
    /\ scanErr' = "nil"
    /\ pc' = "done"
    /\ stdout' = stdout \o fmtPrint(currentBenchmark)
    /\ printed' = Append(printed, [g |-> currentBenchmark, out |-> fmtPrint(currentBenchmark)])
    /\ writes' = writes \o Write("table", fmtPrint(currentBenchmark))
    /\ twin' = [twin EXCEPT !.stdout = @ \o fmtPrint(twin.currentBenchmark),
                            !.writes = @ \o Write("table", fmtPrint(twin.currentBenchmark))]
    /\ UNCHANGED <<noPassthrough, currentBenchmark, text, nread, stderr, accepted, input>>

\* scanner.Scan() returns false at the end of the input, scanner.Err() is nil
EndOfInput ==
    /\ pc = "scan"
    /\ scanErr' = "nil"
    /\ pc' = "done"
    /\ UNCHANGED <<noPassthrough, currentBenchmark, text, nread, stdout, stderr,
                   printed, accepted, input, writes, twin>>

\* scanner.Scan() returns false on a read fault: the error is printed and
\* the process exits with status 1
ScanFault ==
    /\ pc = "scan"
    /\ scanErr' = "bufio.Scanner: token too long"
    /\ stdout' = stdout \o Println(ErrTooLong)
    /\ pc' = "exit1"
    /\ writes' = writes \o Write("fault", Println(ErrTooLong))
    /\ twin' = [twin EXCEPT !.stdout = @ \o Println(ErrTooLong),
                            !.writes = @ \o Write("fault", Println(ErrTooLong))]
    /\ UNCHANGED <<noPassthrough, currentBenchmark, text, nread, stderr,
                   printed, accepted, input>>

Step(line) ==
    \/ ScanNotBenchLine(line)
    \/ ScanBenchLine(line)
    \/ ScanUnrecognized(line)

Next ==
    \/ \E line \in Catalogue : Step(line)
    \/ EndOfInput
    \/ ScanFault

Spec == Init /\ [][Next]_vars

NextUnits ==
    \/ \E line \in UnitCatalogue : Step(line)
    \/ EndOfInput
    \/ ScanFault

\* the same program reading lines whose times lie at the unit thresholds
SpecUnits == Init /\ [][NextUnits]_vars

----------------------------------------------------------------------------
(* Properties *)

\* the groups that were printed with records in them
PrintedGroups == {k \in 1..Len(printed) : Len(printed[k].g.Lines) > 0}

\* the Table that String builds for a group
TableOf(g) == tabulate(g, columnNamesOf(g))

\* the lines of a text: the pieces that end in "\n"
TextLines(s) == LET ps == Split(s, "\n") IN SubSeq(ps, 1, Len(ps) - 1)

RECURSIVE PrintedRecords(_)
PrintedRecords(k) == IF k = 0 THEN <<>> ELSE PrintedRecords(k - 1) \o printed[k].g.Lines

\* C1: every parsed record is a data row of exactly one printed table, the
\* table printed at the first terminator line after it; the data rows of a
\* table are in the input order of their lines; after a terminator line the
\* current group is empty.
C1_EachRecordOneRow ==
    /\ \A k \in PrintedGroups :
          LET rows == TextLines(printed[k].out)
              recs == printed[k].g.Lines
          IN  /\ Len(rows) = Len(recs) + 2
              /\ \A j \in 1..Len(recs) : HasPrefix(rows[j + 2], recs[j].Name)
    /\ PrintedRecords(Len(printed)) \o currentBenchmark.Lines = accepted
    /\ (pc = "scan" /\ okLineMatcher(text) => currentBenchmark = EmptyGroup)

\* C2: at a terminator line the table text of the current group is written
\* to standard output before the line is echoed: header row, underline row
\* and one row per record; for a group without records it is zero bytes, so
\* that only the echo (unless suppressed) is written.
C2_TableBeforeTerminatorEcho ==
    (pc = "scan" /\ okLineMatcher(text)) =>
        LET p     == printed[Len(printed)]
            echo  == IF noPassthrough THEN <<>> ELSE Println(text)
            upTo  == SubSeq(stdout, 1, Len(stdout) - Len(echo))
            rows  == TextLines(p.out)
        IN  /\ HasSuffix(stdout, echo)
            /\ HasSuffix(upTo, p.out)
            /\ (Len(p.g.Lines) = 0 => p.out = <<>>)
            /\ (Len(p.g.Lines) > 0 =>
                    /\ Len(rows) = Len(p.g.Lines) + 2
                    /\ HasPrefix(rows[1], <<"b", "e", "n", "c", "h", "m", "a", "r", "k">>)
                    /\ p.out[Len(p.out)] = "\n")

\* a cell padded to a width: the first column to the right, the others to
\* the left
Padded(i, cell, width) ==
    LET pad == Repeat(" ", width - RuneCount(cell))
    IN  IF i = 1 THEN cell \o pad ELSE pad \o cell

RECURSIVE JoinCells(_, _)
JoinCells(cells, sep) ==
    IF Len(cells) = 0 THEN <<>>
    ELSE IF Len(cells) = 1 THEN cells[1]
    ELSE cells[1] \o sep \o JoinCells(Tail(cells), sep)

\* C3: for every group with records rendering completes, and every row of
\* the table (header, underline, data rows) has exactly one cell per column,
\* each padded with spaces to the column's width, the greatest length of a
\* cell of the column; the first column is left-justified, the others
\* right-justified, 3 spaces between columns, none after the last.
C3_ColumnsAligned ==
    \A k \in PrintedGroups :
        LET g     == printed[k].g
            cells == TableOf(g).Cells
            n     == Len(columnNamesOf(g))
            width == [i \in 1..n |->
                        CHOOSE w \in {Len(cells[r][i]) : r \in 1..Len(cells)} :
                            \A r \in 1..Len(cells) : Len(cells[r][i]) <= w]
            rows  == TextLines(printed[k].out)
        IN  /\ ~String(g).panic
            /\ \A r \in 1..Len(cells) : Len(cells[r]) = n
            /\ Len(rows) = Len(cells)
            /\ \A r \in 1..Len(cells) :
                  rows[r] = JoinCells([i \in 1..n |-> Padded(i, cells[r][i], width[i])],
                                      <<" ", " ", " ">>)

\* C4: row 1 of every table is the underline row: for the header at each
\* column position a run of '-' as long as the header, and no other cells.
C4_UnderlineRow ==
    \A k \in PrintedGroups :
        LET names == columnNamesOf(printed[k].g)
            cells == TableOf(printed[k].g).Cells
        IN  /\ cells[1] = names
            /\ cells[2] = [i \in 1..Len(names) |-> Repeat("-", Len(names[i]))]

\* the time cell of a data row: the number before its first space, and the
\* unit label from that space on
CellSpace(cell) == CHOOSE i \in 1..Len(cell) : cell[i] = " " /\ \A j \in 1..(i - 1) : cell[j] # " "

CellNumber(cell) == SubSeq(cell, 1, CellSpace(cell) - 1)

CellUnit(cell) == SubSeq(cell, CellSpace(cell), Len(cell))

TwoDecimals(num) ==
    /\ Len(num) >= 4
    /\ num[Len(num) - 2] = "."
    /\ AllDigits(SubSeq(num, 1, Len(num) - 3))
    /\ AllDigits(SubSeq(num, Len(num) - 1, Len(num)))

\* the smallest NsOp of a group's records
SmallestTime(g) ==
    LET times == {g.Lines[j].NsOp : j \in 1..Len(g.Lines)}
    IN  CHOOSE t \in times : \A u \in times : ~FloatLess(u, t)

\* the unit label the thresholds give for a smallest time; a time is below
\* 10^d exactly if it has at most d digits before the point
UnitFor(smallest) ==
    CASE Len(smallest.ip) <= 4  -> <<" ", "n", "s", "/", "o", "p">>
      [] Len(smallest.ip) <= 6  -> <<" ", "<CE>", "<BC>", "s", "/", "o", "p">>
      [] Len(smallest.ip) <= 10 -> <<" ", "m", "s", "/", "o", "p">>
      [] OTHER                  -> <<" ", "s", "/", "o", "p">>

AnyHas(g, f) == \E j \in 1..Len(g.Lines) : HasFlag(g.Lines[j].Measured, f)

\* the column position of an optional metric in a group's table
ColumnOf(g, f) ==
    3 + Cardinality({h \in {MbS, BOp, AllocsOp} : h <= f /\ AnyHas(g, h)})

\* C6: the columns of a table are benchmark, iter, time/iter and then, in
\* this order, throughput, bytes alloc, allocs, each of the three exactly if
\* some record of the group has the flag; in an included column a record
\* without the metric has an empty cell and a record with it a non-empty one.
C6_ColumnsAreUnionOfFlags ==
    \A k \in PrintedGroups :
        LET g     == printed[k].g
            cells == TableOf(g).Cells
            names == <<<<"b", "e", "n", "c", "h", "m", "a", "r", "k">>, <<"i", "t", "e", "r">>, <<"t", "i", "m", "e", "/", "i", "t", "e", "r">>>>
                     \o (IF AnyHas(g, MbS) THEN <<<<"t", "h", "r", "o", "u", "g", "h", "p", "u", "t">>>> ELSE <<>>)
                     \o (IF AnyHas(g, BOp) THEN <<<<"b", "y", "t", "e", "s", " ", "a", "l", "l", "o", "c">>>> ELSE <<>>)
                     \o (IF AnyHas(g, AllocsOp) THEN <<<<"a", "l", "l", "o", "c", "s">>>> ELSE <<>>)
        IN  /\ cells[1] = names
            /\ \A j \in 1..Len(g.Lines) :
                  /\ Len(cells[j + 2]) = Len(names)
                  /\ \A f \in {MbS, BOp, AllocsOp} :
                        AnyHas(g, f) =>
                            (cells[j + 2][ColumnOf(g, f)] = <<>>
                                <=> ~HasFlag(g.Lines[j].Measured, f))

\* a printed group of two records with all six columns, where the first
\* record has throughput only and the second allocations only
C6_Witness ==
    \E k \in PrintedGroups :
        LET g     == printed[k].g
            cells == TableOf(g).Cells
        IN  /\ Len(g.Lines) = 2
            /\ Len(cells[1]) = 6
            /\ cells[3][4] # <<>> /\ cells[3][5] = <<>> /\ cells[3][6] = <<>>
            /\ cells[4][4] = <<>> /\ cells[4][5] # <<>> /\ cells[4][6] # <<>>

\* the step scans one more line; text' is that line
Scanned == nread' = nread + 1

\* the metric fields of a line: its tab-separated fields after the second,
\* each as its space-separated tokens
MetricFields(line) ==
    LET fs == Split(line, "\t") IN {Fields(fs[k]) : k \in 3..Len(fs)}

\* a metric field of a quantity and a unit label that is none of the four
HasUnknownUnit(line) ==
    \E m \in MetricFields(line) : Len(m) = 2 /\ m[2] \notin UnitLabels

\* whether a quantity parses as the number type of a unit label
QuantityParses(quant, unit) ==
    IF unit \in {<<"n", "s", "/", "o", "p">>, <<"M", "B", "/", "s">>} THEN ~ParseFloat(quant).err ELSE ~ParseUint(quant).err

\* a metric field that is not exactly a quantity and a unit, or whose
\* quantity is no number of its unit's type
HasMalformedField(line) ==
    \E m \in MetricFields(line) :
        \/ Len(m) # 2
        \/ m[2] \in UnitLabels /\ ~QuantityParses(m[1], m[2])

\* the line is handled as unrecognized: echoed, one notice, no record
HandledAsUnrecognized ==
    /\ currentBenchmark' = currentBenchmark
    /\ accepted' = accepted
    /\ stdout' = stdout \o Println(text')
    /\ stderr' = Append(stderr, Notice)

\* the line is taken as a record: appended to the group, nothing written
TakenAsRecord ==
    /\ Len(currentBenchmark'.Lines) = Len(currentBenchmark.Lines) + 1
    /\ SubSeq(currentBenchmark'.Lines, 1, Len(currentBenchmark.Lines)) = currentBenchmark.Lines
    /\ stdout' = stdout
    /\ stderr' = stderr

\* the record the step appended
NewRecord == currentBenchmark'.Lines[Len(currentBenchmark'.Lines)]

\* the second whitespace-separated token of the line is an integer
IntegerCount(line) == Len(Fields(line)) >= 2 /\ ~Atoi(Fields(line)[2]).err

\* the unit label of a measured flag
LabelOf(f) ==
    CASE f = NsOp -> <<"n", "s", "/", "o", "p">> [] f = MbS -> <<"M", "B", "/", "s">> [] f = BOp -> <<"B", "/", "o", "p">>
      [] OTHER -> <<"a", "l", "l", "o", "c", "s", "/", "o", "p">>

\* the (quantity, unit) pairs of whitespace-separated tokens after the name
\* and the count that are well-formed for a flag
WellFormedPair(line, f) ==
    LET toks == Fields(line)
    IN  \E i \in 1..(Len(toks) \div 2 - 1) :
            toks[2 * i + 2] = LabelOf(f) /\ QuantityParses(toks[2 * i + 1], LabelOf(f))

\* C7 as stated: a pre-filter-accepted line with a metric field of an
\* unknown unit label fails to parse: no record is added, the line is
\* echoed and one diagnostic notice is produced.
C7_UnknownUnitFails ==
    [][(Scanned /\ benchLineMatcher(text') /\ HasUnknownUnit(text')) => HandledAsUnrecognized]_vars

\* C7 amended: such a line, when its second whitespace-separated token is an
\* integer, is taken as a record: the unknown unit sets no measured flag,
\* the record is appended to the current group, the line is not echoed and
\* no notice is produced.
C7_UnknownUnitIgnored ==
    [][(Scanned /\ benchLineMatcher(text') /\ HasUnknownUnit(text') /\ IntegerCount(text')) =>
            /\ TakenAsRecord
            /\ NewRecord.Name = Fields(text')[1]
            /\ \A f \in Flags : HasFlag(NewRecord.Measured, f) => WellFormedPair(text', f)
            /\ (\A f \in Flags : ~WellFormedPair(text', f)) =>
                    NewRecord = NewBench(Fields(text')[1], Atoi(Fields(text')[2]).val)]_vars

\* the line with the unknown unit was scanned and is the last record of the
\* group, with no flag, and nothing was written
C7_Witness ==
    /\ text = LnUnknownUnit
    /\ Len(currentBenchmark.Lines) >= 1
    /\ currentBenchmark.Lines[Len(currentBenchmark.Lines)].Name = Fields(LnUnknownUnit)[1]
    /\ currentBenchmark.Lines[Len(currentBenchmark.Lines)].Measured = 0
    /\ stdout = <<>>
    /\ stderr = <<>>

\* C8 as stated: a pre-filter-accepted line with a malformed metric field
\* yields no record at all and is handled as unrecognized, with a notice.
C8_MalformedFieldFails ==
    [][(Scanned /\ benchLineMatcher(text') /\ HasMalformedField(text')) => HandledAsUnrecognized]_vars

\* C8 amended: a pre-filter-accepted line of at least 3 tab-separated fields
\* fails to parse exactly when its second whitespace-separated token is no
\* integer, and then yields no record and is handled as unrecognized; a
\* malformed metric field is no parse failure: the line yields a record with
\* its name and count in which exactly the well-formed (quantity, unit)
\* token pairs set their metric; it is not echoed and no notice is produced.
C8_NoPartialRecordOnFailure ==
    [][(Scanned /\ benchLineMatcher(text') /\ Len(Split(text', "\t")) >= 3) =>
            /\ ~IntegerCount(text') => HandledAsUnrecognized
            /\ (IntegerCount(text') /\ HasMalformedField(text')) =>
                    /\ TakenAsRecord
                    /\ NewRecord.Name = Fields(text')[1]
                    /\ NewRecord.N = Atoi(Fields(text')[2]).val
                    /\ \A f \in Flags :
                          HasFlag(NewRecord.Measured, f) <=> WellFormedPair(text', f)]_vars

\* the line with the bad quantity was scanned and is the last record of the
\* group: its B/op is measured, its ns/op is not, and nothing was written
C8_Witness ==
    /\ text = LnBadQuantity
    /\ Len(currentBenchmark.Lines) >= 1
    /\ currentBenchmark.Lines[Len(currentBenchmark.Lines)].Measured = BOp
    /\ currentBenchmark.Lines[Len(currentBenchmark.Lines)].BOp = 7
    /\ stdout = <<>>
    /\ stderr = <<>>

\* C9 as stated: a pre-filter-accepted line of fewer than 3 tab-separated
\* fields gets a diagnostic notice and is echoed whatever the suppression
\* setting, and no record is added.
C9_TooFewFieldsIsError ==
    [][(Scanned /\ benchLineMatcher(text') /\ Len(Split(text', "\t")) < 3) =>
            HandledAsUnrecognized]_vars

\* C9 amended: such a line is handled as a line that is no benchmark line:
\* no notice is produced, the line is echoed only when pass-through
\* suppression is off, and no record is added.
C9_TooFewFieldsIsPassThrough ==
    [][(Scanned /\ benchLineMatcher(text') /\ Len(Split(text', "\t")) < 3) =>
            /\ currentBenchmark' = currentBenchmark
            /\ accepted' = accepted
            /\ printed' = printed
            /\ stderr' = stderr
            /\ stdout' = stdout \o (IF noPassthrough THEN <<>> ELSE Println(text'))]_vars

\* the two-field line was scanned with suppression on: nothing was written
\* and no record was added
C9_Witness ==
    /\ text = LnTwoFields
    /\ noPassthrough
    /\ nread = 1
    /\ stdout = <<>>
    /\ stderr = <<>>
    /\ currentBenchmark = EmptyGroup

\* C10: when the input ends (scanner.Scan() returns false and there is no
\* read error) while the current group holds records, nothing is written for
\* them: standard output, standard error and the printed groups stay as
\* they are, the records of the current group are in no printed group, main
\* returns normally, and nothing happens after it.
C10_TrailingGroupDropped ==
    [][/\ pc = "scan"
       /\ (pc' # "scan" /\ scanErr' = "nil") =>
              /\ pc' = "done"
              /\ stdout' = stdout
              /\ stderr' = stderr
              /\ printed' = printed
              /\ currentBenchmark' = currentBenchmark
              /\ PrintedRecords(Len(printed)) \o currentBenchmark.Lines = accepted]_vars

\* main has returned with two records in the current group, after an
\* earlier terminator line, and the two records are in no printed group
C10_Witness ==
    /\ pc = "done"
    /\ Len(currentBenchmark.Lines) = 2
    /\ Len(printed) = 1
    /\ Len(accepted) = 2

----------------------------------------------------------------------------
(* The two values of -no-passthrough on one input *)

\* the run with suppression off and the run with suppression on
OffRun ==
    IF noPassthrough THEN twin
    ELSE [currentBenchmark |-> currentBenchmark, stdout |-> stdout, writes |-> writes]

OnRun ==
    IF noPassthrough
    THEN [currentBenchmark |-> currentBenchmark, stdout |-> stdout, writes |-> writes]
    ELSE twin

\* the bytes of a sequence of writes
BytesOf(ws) == Concat([i \in 1..Len(ws) |-> ws[i].bytes])

\* the pass-through lines of the input, in order: the lines that are
\* neither taken as records nor reported as unrecognized
PassThroughLines == SelectSeq(input, LAMBDA l : ParseLine(l).err = "errNotBenchLine")

\* C11: on one input, standard output with suppression on is standard output
\* with suppression off without the echoes of the pass-through lines
\* (terminator lines included): what is written for the groups and for
\* unrecognized lines is the same, in the same order, in both runs; and with
\* suppression off the echoes are the pass-through lines of the input, each
\* verbatim with its newline, once, in input order.
C11_SuppressionRemovesOnlyEchoes ==
    LET kept   == SelectSeq(OffRun.writes, LAMBDA w : w.kind # "echo")
        echoes == SelectSeq(OffRun.writes, LAMBDA w : w.kind = "echo")
    IN  /\ OffRun.stdout = BytesOf(OffRun.writes)
        /\ OnRun.stdout = BytesOf(OnRun.writes)
        /\ OnRun.writes = kept
        /\ OnRun.stdout = BytesOf(kept)
        /\ OnRun.currentBenchmark = OffRun.currentBenchmark
        /\ Len(echoes) = Len(PassThroughLines)
        /\ \A i \in 1..Len(echoes) : echoes[i].bytes = PassThroughLines[i] \o <<"\n">>

\* a record, an unrecognized line and a terminator line were read with
\* suppression on: the group's output and the unrecognized line are on
\* standard output, and the run with suppression off wrote the echo of
\* the terminator line as well
C11_Witness ==
    /\ noPassthrough
    /\ input = <<LnNs, LnBadIter, LnOk>>
    /\ Len(writes) = 2
    /\ writes[1].kind = "unrecognized" /\ writes[2].kind = "table"
    /\ Len(twin.writes) = 3
    /\ twin.stdout = stdout \o Println(LnOk)

----------------------------------------------------------------------------
(* Text lines inside a group *)

\* the position of the last terminator line of the lines, 0 if there is none
LastTerminator(ls) ==
    LET oks == {i \in 1..Len(ls) : okLineMatcher(ls[i])}
    IN  IF oks = {} THEN 0 ELSE CHOOSE i \in oks : \A j \in oks : j <= i

\* the lines scanned since the last terminator line
SinceTerminator == SubSeq(input, LastTerminator(input) + 1, Len(input))

\* the records of the measurement lines among the lines, in order
RecordsOf(ls) ==
    LET ms == SelectSeq(ls, LAMBDA l : ParseLine(l).err = "nil")
    IN  [i \in 1..Len(ms) |-> ParseLine(ms[i]).b]

\* what the lines that are no measurement lines put on standard output
\* with suppression off: every one of them followed by a newline
EchoedOf(ls) ==
    LET es == SelectSeq(ls, LAMBDA l : ParseLine(l).err # "nil")
    IN  Concat([i \in 1..Len(es) |-> Println(es[i])])

\* C12: a pass-through line that is no terminator line leaves the current
\* group as it is (with suppression off it is echoed at once), so the
\* current group holds the records of all measurement lines since the last
\* terminator line, text lines between them or not, with the union of their
\* flags; and with suppression off, at the next terminator line the echoes
\* of those text lines are on standard output already when the table is
\* written, in which every record of the group has its row: header,
\* underline, one row per record in order, and then the terminator's echo.
C12_TextLineKeepsGroup ==
    [][Scanned =>
        /\ (ParseLine(text').err = "errNotBenchLine" /\ ~okLineMatcher(text')) =>
               /\ currentBenchmark' = currentBenchmark
               /\ stdout' = stdout \o (IF noPassthrough THEN <<>> ELSE Println(text'))
        /\ currentBenchmark.Lines = RecordsOf(SinceTerminator)
        /\ \A f \in Flags : HasFlag(currentBenchmark.Measured, f) <=> AnyHas(currentBenchmark, f)
        /\ (okLineMatcher(text') /\ ~noPassthrough /\ currentBenchmark.Lines # <<>>) =>
               LET recs == currentBenchmark.Lines
                   rows == TextLines(SubSeq(stdout', Len(stdout) + 1, Len(stdout')))
               IN  /\ HasSuffix(stdout, EchoedOf(SinceTerminator))
                   /\ Len(rows) = Len(recs) + 3
                   /\ \A j \in 1..Len(recs) : HasPrefix(rows[j + 2], recs[j].Name)
                   /\ rows[Len(rows)] = text'
      ]_vars

\* the part of C12 that is about the group alone: a text line between two
\* measurement lines and the terminator after them, one group of two records
C12_GroupAcrossTextLine ==
    [][Scanned =>
        /\ (ParseLine(text').err = "errNotBenchLine" /\ ~okLineMatcher(text')) =>
               /\ currentBenchmark' = currentBenchmark
               /\ stdout' = stdout \o (IF noPassthrough THEN <<>> ELSE Println(text'))
        /\ currentBenchmark.Lines = RecordsOf(SinceTerminator)
        /\ \A f \in Flags : HasFlag(currentBenchmark.Measured, f) <=> AnyHas(currentBenchmark, f)
        /\ (okLineMatcher(text') /\ ~noPassthrough) =>
               HasSuffix(stdout, EchoedOf(SinceTerminator))
      ]_vars

----------------------------------------------------------------------------
(* Records without a time *)

====
